---- MODULE Spec2Model ----
(***************************************************************************)
(* AEMO NEMWeb dispatch scraper (backend/data/collectors/                  *)
(* aemo_nemweb_scraper.py): the row scan of extract_price_data and the     *)
(* retry loop of scrape_current_prices, one process per caller.            *)
(*                                                                         *)
(* A report text is held as the list of rows csv.reader produces from it   *)
(* (a row is a sequence of string fields); the empty text is the empty     *)
(* list.  Python index i of a row is Field(row, i).  Prices are held in    *)
(* hundredths of AUD/MWh.  The wall-clock 'timestamp' entry of the result  *)
(* and the log lines are not modelled.                                     *)
(***************************************************************************)
EXTENDS Integers, Sequences, FiniteSets, TLC

\* ---------------------------------------------------------------- bounds
\* Longest report text (in rows) drawn from RowPool.
MaxRows == 3
\* Number of data rows of the well-formed five-region reports.
MaxPriceRows == 5
\* Longest report text (in rows) of the two-caller specification.
MaxConcRows == 2

\* ------------------------------------------------------------ row format
\* row[i] of the Python code (0-based)
Field(row, i) == row[i + 1]

REGION_OFFSET == 6
PRICE_OFFSET == 9

\* A record of the MMS format: tag, category, table, then the columns; the
\* region at offset 6 and the price at offset 9, cut to n fields.
MkRow(tag, cat, tbl, region, price, n) ==
    SubSeq(<<tag, cat, tbl, "1", "2025/09/11 16:55:00", "1", region, "1", "0", price, "0">>, 1, n)

PriceHeader == <<"I", "DISPATCH", "PRICE">>
TradingPriceHeader == <<"I", "TRADING", "PRICE">>
RegionSumHeader == <<"I", "DISPATCH", "REGIONSUM">>
ShortHeader == <<"I", "DISPATCH">>
CommentRow == <<"C", "NEMP.WORLD", "DISPATCHIS">>
EmptyRow == << >>
DataRow(region, price) == MkRow("D", "DISPATCH", "PRICE", region, price, 10)
ShortDataRow(region) == MkRow("D", "DISPATCH", "PRICE", region, "", 9)

\* ------------------------------------------------------------ float(str)
\* float(price) of line 106 on the price fields of the model: the value in
\* hundredths, or ValueError.  Surrounding blanks are stripped, an exponent
\* is applied, so different texts give the same number.
PyFloat(s) ==
    CASE s = "95.43" -> [ok |-> TRUE, value |-> 9543]
      [] s = "100"   -> [ok |-> TRUE, value |-> 10000]
      [] s = "1e2"   -> [ok |-> TRUE, value |-> 10000]
      [] s = "100.0" -> [ok |-> TRUE, value |-> 10000]
      [] s = "-5"    -> [ok |-> TRUE, value |-> -500]
      [] s = " 7 "   -> [ok |-> TRUE, value |-> 700]
      [] s = "0"     -> [ok |-> TRUE, value |-> 0]
      [] s = "42.5"  -> [ok |-> TRUE, value |-> 4250]
      [] OTHER       -> [ok |-> FALSE, value |-> 0]

\* ------------------------------------------------------------ the inputs
RowPool ==
    { PriceHeader, TradingPriceHeader, RegionSumHeader, ShortHeader,
      CommentRow, EmptyRow,
      DataRow("NSW1", "95.43"), DataRow("NSW1", "1e2"), DataRow("VIC1", "-5"),
      DataRow("NSW1", "abc"), DataRow("VIC1", ""),
      DataRow("NSW", "100"), DataRow("nsw1", "100"),
      ShortDataRow("NSW1") }

Texts(pool, n) == UNION { [1..k -> pool] : k \in 0..n }

\* One valid data row per tracked region, and a second one for NSW1.
FiveRegionRows ==
    { DataRow("NSW1", "95.43"), DataRow("VIC1", "-5"), DataRow("QLD1", "100.0"),
      DataRow("SA1", " 7 "), DataRow("TAS1", "0"), DataRow("NSW1", "42.5") }

FiveRegionTexts ==
    { <<PriceHeader>> \o s : s \in
        { t \in [1..MaxPriceRows -> FiveRegionRows] :
            \A r \in {"NSW1", "VIC1", "QLD1", "SA1", "TAS1"} :
                \E k \in 1..MaxPriceRows : Field(t[k], REGION_OFFSET) = r } }

\* Reports whose first data row has, at the region offset, a string that is no
\* tracked code: empty, padded, another case, another region.
OddRegionTexts ==
    { <<PriceHeader, DataRow(r, "100"), DataRow("VIC1", "-5")>> :
        r \in {"", " NSW1", "NSW1 ", "Nsw1", "SNOWY1"} }

\* A target header that has the shape of a data row, with data rows and
\* another header around it.
LongPriceHeader == MkRow("I", "DISPATCH", "PRICE", "NSW1", "100", 10)
HeaderTexts ==
    Texts({ LongPriceHeader, DataRow("VIC1", "-5"), DataRow("NSW1", "95.43"),
            RegionSumHeader }, MaxRows)

\* Reports in which the PRICE table stands twice, another table between.
ReentryTexts ==
    { <<PriceHeader, d1, d2, h, PriceHeader, d3>> :
        d1 \in { DataRow("NSW1", "95.43") },
        d2 \in { DataRow("VIC1", "-5"), CommentRow },
        h \in { RegionSumHeader, TradingPriceHeader, <<"I", "DREGION", "">> },
        d3 \in { DataRow("NSW1", "1e2"), DataRow("QLD1", "100.0"), DataRow("NSW1", "abc") } }

ConcRowPool == { PriceHeader, RegionSumHeader, DataRow("NSW1", "95.43") }

\* ------------------------------------------------- the archive collaborator
\* What the server answers to one GET: the request may raise, the status may
\* differ from 200, the body may be no ZIP archive, and an archive lists
\* members (extension of the name, decoded text).
\* An archive member: the extension of its name, its decoded text as rows, and
\* whether csv.reader fails on the text (a bare carriage return in a field, a
\* field over the size limit).
Member(ext, text) == [ext |-> ext, text |-> text, csv_error |-> FALSE]
UnsplittableMember == [ext |-> "CSV", text |-> << <<"D", "a\rb">> >>, csv_error |-> TRUE]

OkResponse(text) ==
    [raises |-> FALSE, status_code |-> 200, bad_zip |-> FALSE,
     members |-> << Member("CSV", text) >>]
ArchiveResponse(members) ==
    [raises |-> FALSE, status_code |-> 200, bad_zip |-> FALSE, members |-> members]
NotFoundResponse ==
    [raises |-> FALSE, status_code |-> 404, bad_zip |-> FALSE, members |-> << >>]
BadZipResponse ==
    [raises |-> FALSE, status_code |-> 200, bad_zip |-> TRUE, members |-> << >>]
NoCsvResponse ==
    [raises |-> FALSE, status_code |-> 200, bad_zip |-> FALSE,
     members |-> << Member("txt", <<CommentRow>>) >>]
TimeoutResponse ==
    [raises |-> TRUE, status_code |-> 0, bad_zip |-> FALSE, members |-> << >>]
FailedResponses == { NotFoundResponse, BadZipResponse, NoCsvResponse, TimeoutResponse }

\* Archives of up to two members, with the spellings of the extension, and an
\* archive of no member.
MemberPool ==
    { Member(e, t) : e \in {"csv", "Csv", "CSV", "txt"},
                     t \in { <<PriceHeader, DataRow("NSW1", "95.43")>>,
                             <<PriceHeader, DataRow("VIC1", "-5")>> } }
ArchiveResponses ==
    { ArchiveResponse(m) : m \in UNION { [1..k -> MemberPool] : k \in 0..2 } }
      \cup { ArchiveResponse(<<UnsplittableMember>>) }

\* variant: the name is matched as it is spelled
UpperAsIs(ext) == ext

\* f.upper() on the extension of a member name
Upper(ext) ==
    CASE ext \in {"csv", "Csv", "CSV"} -> "CSV"
      [] ext = "txt" -> "TXT"
      [] OTHER -> ext

\* Python None, and a text, as the content download_and_extract_file returns
NoContent == [is_none |-> TRUE, rows |-> << >>, csv_error |-> FALSE]
Content(rows) == [is_none |-> FALSE, rows |-> rows, csv_error |-> FALSE]
\* a text list(csv.reader(...)) of lines 81-82 raises csv.Error on
UnsplittableContent(rows) == [is_none |-> FALSE, rows |-> rows, csv_error |-> TRUE]
\* truth value of `content`: neither None nor the empty text
Truthy(content) == ~content.is_none /\ content.rows # << >>

download_and_extract_file(resp) ==
    IF resp.raises \/ resp.bad_zip THEN NoContent
    ELSE IF resp.status_code = 200
         THEN LET csv_files == SelectSeq(resp.members, LAMBDA m : Upper(m.ext) = "CSV")
              IN  IF csv_files = << >> THEN NoContent
                  ELSE IF csv_files[1].csv_error THEN UnsplittableContent(csv_files[1].text)
                  ELSE Content(csv_files[1].text)
         ELSE NoContent

DEFAULT_LIMIT == 3
\* the file names get_latest_dispatch_files(limit) generates: one, at i = 0
get_latest_dispatch_files(limit) ==
    LET keep == SelectSeq([k \in 1..limit |-> k - 1], LAMBDA i : i = 0)
    IN  [k \in 1..Len(keep) |-> "PUBLIC_DISPATCHIS_202509111655_0000000480215212.zip"]

\* ------------------------------------------------------ extract_price_data
EmptyDict == [k \in {} |-> 0]
\* variant: d.setdefault(key, value), the first price of a region is kept
DictSetDefault(d, key, value) ==
    [k \in DOMAIN d \cup {key} |-> IF k \in DOMAIN d THEN d[k] ELSE value]

\* d[key] = value on a dict
DictSet(d, key, value) ==
    [k \in DOMAIN d \cup {key} |-> IF k = key THEN value ELSE d[k]]

\* variant: the list also holds the short state names of the fallback dict
TrackedRegionsLoose ==
    {"NSW1", "VIC1", "QLD1", "SA1", "TAS1", "NSW", "VIC", "QLD", "SA", "TAS"}

TrackedRegions == {"NSW1", "VIC1", "QLD1", "SA1", "TAS1"}

\* lines 91-94
IsPriceHeader(row) ==
    /\ Len(row) > 2
    /\ Field(row, 1) = "DISPATCH"
    /\ Field(row, 2) = "PRICE"
    /\ Field(row, 0) = "I"

\* variant: the length test is off by one (len(row) > 10)
IsSectionDataOffByOne(in_section, row) ==
    in_section /\ Field(row, 0) = "D" /\ Len(row) > 10

\* line 99
IsSectionData(in_section, row) ==
    in_section /\ Field(row, 0) = "D" /\ Len(row) > 9

\* variant: ValueError is not caught and leaves the function
RecordPriceFatal(st, region, price) ==
    IF PyFloat(price).ok
    THEN [st EXCEPT !.price_data = DictSet(st.price_data, region, PyFloat(price).value)]
    ELSE [st EXCEPT !.raised = TRUE]

\* lines 105-110: the price parses and is stored, or ValueError is caught
\* and the row is dropped
RecordPrice(st, region, price) ==
    IF PyFloat(price).ok
    THEN [st EXCEPT !.price_data = DictSet(st.price_data, region, PyFloat(price).value)]
    ELSE st

\* lines 101-110
ExtractRow(st, row) ==
    LET region == Field(row, REGION_OFFSET)
        price == Field(row, PRICE_OFFSET)
    IN  IF region # "" /\ price # "" /\ region \in TrackedRegions
        THEN RecordPrice(st, region, price)
        ELSE st

\* variant: a 'D' row that is not extracted ends the section
LeaveSectionOnShortData(st, row) ==
    IF st.in_price_section /\ Field(row, 0) = "D"
    THEN [st EXCEPT !.in_price_section = FALSE]
    ELSE IF st.in_price_section /\ Field(row, 0) = "I"
    THEN IF Len(row) < 3
         THEN [st EXCEPT !.raised = TRUE]
         ELSE IF Field(row, 2) # "PRICE"
              THEN [st EXCEPT !.in_price_section = FALSE]
              ELSE st
    ELSE st

\* variant: a row of another tag than 'I' and 'D' toggles the section flag
LeaveSectionOnStrayTag(st, row) ==
    IF Field(row, 0) \notin {"I", "D"}
    THEN [st EXCEPT !.in_price_section = ~st.in_price_section]
    ELSE IF st.in_price_section /\ Field(row, 0) = "I"
    THEN IF Len(row) < 3
         THEN [st EXCEPT !.raised = TRUE]
         ELSE IF Field(row, 2) # "PRICE"
              THEN [st EXCEPT !.in_price_section = FALSE]
              ELSE st
    ELSE st

\* lines 113-114; row[2] of a row of fewer than three fields is an IndexError
LeaveSection(st, row) ==
    IF st.in_price_section /\ Field(row, 0) = "I"
    THEN IF Len(row) < 3
         THEN [st EXCEPT !.raised = TRUE]
         ELSE IF Field(row, 2) # "PRICE"
              THEN [st EXCEPT !.in_price_section = FALSE]
              ELSE st
    ELSE st

\* variant: the header of the PRICE table starts a fresh price map
StepRowResetOnHeader(st, row) ==
    IF row = << >> THEN st
    ELSE IF IsPriceHeader(row)
    THEN [st EXCEPT !.in_price_section = TRUE, !.price_data = EmptyDict]
    ELSE IF IsSectionData(st.in_price_section, row) THEN ExtractRow(st, row)
    ELSE LeaveSection(st, row)

\* one iteration of the loop of lines 88-114 on the locals
\* st = [in_price_section, price_data, raised]
StepRow(st, row) ==
    IF row = << >> THEN st
    ELSE IF IsPriceHeader(row) THEN [st EXCEPT !.in_price_section = TRUE]
    ELSE IF IsSectionData(st.in_price_section, row) THEN ExtractRow(st, row)
    ELSE LeaveSection(st, row)

\* variant: the flag lives on the scraper object and is not reset
InitialFlagKept(prev) == prev

\* variant: the scan starts inside the section
InitialFlagSet(prev) == TRUE

\* line 86: the flag a call starts with (prev is the flag the previous call
\* of the same caller ended with)
InitialFlag(prev) == FALSE

\* lines 80, 86: the locals at the start of the scan
StartState(prev) == [in_price_section |-> InitialFlag(prev), price_data |-> EmptyDict, raised |-> FALSE]

\* the locals after the first n rows of rows, scanned alone
RECURSIVE ScanPrefix(_, _)
ScanPrefix(rows, n) ==
    IF n = 0 THEN StartState(FALSE)
    ELSE LET before == ScanPrefix(rows, n - 1)
         IN  IF before.raised THEN before ELSE StepRow(before, rows[n])

\* lines 74-116 as a function of the rows
extract_price_data(rows) == ScanPrefix(rows, Len(rows))

\* --------------------------------------------------- scrape_current_prices
\* variant: a region that was not found is entered with price 0
RealResultZeroFilled(price_data) ==
    [prices |-> [r \in TrackedRegions |-> IF r \in DOMAIN price_data THEN price_data[r] ELSE 0],
     source |-> "AEMO NEMWeb", data_quality |-> "REAL"]

\* lines 134-140: the price entries of the returned dict and its tags
RealResult(price_data) ==
    [prices |-> price_data, source |-> "AEMO NEMWeb", data_quality |-> "REAL"]

\* lines 145-154
UnavailableResult ==
    [prices |-> [k \in {"NSW", "VIC", "QLD", "SA", "TAS"} |-> 0],
     source |-> "AEMO NEMWeb", data_quality |-> "UNAVAILABLE"]

NoResult == [prices |-> EmptyDict, source |-> "", data_quality |-> ""]
NoCall == [called |-> FALSE, map |-> EmptyDict]

\* ------------------------- RealOnlyScrapers.scrape_electricity_data_real_only
\* real_only_scrapers.py lines 47, 65, 83
REGIONS == <<"NSW1", "VIC1", "QLD1", "SA1", "TAS1">>
\* d.get(key, default)
DictGet(d, key, default) == IF key \in DOMAIN d THEN d[key] ELSE default
\* one record of lines 52-58 (70-76, 88-94)
ElectricityRecord(region, price) ==
    [region |-> region, price |-> price, demand |-> 0, supply |-> 0]

\* variant: a region without a price is left out instead of entered with 0.0
real_only_records_found_only(raised, price_data) ==
    IF ~raised /\ price_data.data_quality = "REAL"
    THEN LET found == SelectSeq(REGIONS, LAMBDA r : r \in DOMAIN price_data.prices)
         IN  [i \in 1..Len(found) |-> ElectricityRecord(found[i], price_data.prices[found[i]])]
    ELSE [i \in 1..Len(REGIONS) |-> ElectricityRecord(REGIONS[i], 0)]

\* lines 39-96 on what scrape_current_prices did: it raised, or returned the
\* dict price_data
scrape_electricity_data_real_only(raised, price_data) ==
    IF ~raised /\ price_data.data_quality = "REAL"
    THEN [i \in 1..Len(REGIONS) |->
            ElectricityRecord(REGIONS[i], DictGet(price_data.prices, REGIONS[i], 0))]
    ELSE [i \in 1..Len(REGIONS) |-> ElectricityRecord(REGIONS[i], 0)]

\* --------------------------------------------- api/routes/scraper.py
\* Background collections the model follows.
MaxTasks == 2
Tasks == 1..MaxTasks

\* lines 11-16; None is held as "None" (last_error) and 0 (last_run), and the
\* datetime.now() a collection stores as last_run as the number of the task
InitialStatus ==
    [is_running |-> FALSE, last_run |-> 0, last_error |-> "None",
     progress |-> "Ready to collect data"]

\* what subprocess.run of lines 31-37 does: the script exits with a return
\* code and a stderr text, the 300 s timeout expires, or another exception
\* (the interpreter or the directory is missing) is raised
SubprocessOutcomes ==
    { [kind |-> "exit", returncode |-> 0, text |-> ""],
      [kind |-> "exit", returncode |-> 1, text |-> "Traceback"],
      [kind |-> "exit", returncode |-> 1, text |-> ""],
      [kind |-> "timeout", returncode |-> 0, text |-> "Timeout"],
      [kind |-> "exception", returncode |-> 0, text |-> "No such file or directory"] }

\* lines 23-25
BeginStatus(status) ==
    [status EXCEPT !.is_running = TRUE, !.progress = "Starting data collection...",
                   !.last_error = "None"]

\* lines 39-51: the status after subprocess.run, at time now (the stderr and
\* exception texts the code appends to progress are kept in last_error only)
RunStatus(status, out, now) ==
    CASE out.kind = "exit" /\ out.returncode = 0 ->
            [status EXCEPT !.progress = "Data collection completed successfully!",
                           !.last_run = now]
      [] out.kind = "exit" /\ out.returncode # 0 ->
            [status EXCEPT !.progress = "Data collection failed", !.last_error = out.text]
      [] out.kind = "timeout" ->
            [status EXCEPT !.progress = "Data collection timed out after 5 minutes",
                           !.last_error = "Timeout"]
      [] OTHER ->
            [status EXCEPT !.progress = "Data collection error", !.last_error = out.text]

\* variant: the flag is cleared at the end of the try block only, not in a
\* finally clause, so a timeout or an exception leaves it set
FinallyStatusOnSuccessOnly(status, out) ==
    IF out.kind = "exit" THEN [status EXCEPT !.is_running = FALSE] ELSE status

\* lines 52-53
FinallyStatus(status, out) == [status EXCEPT !.is_running = FALSE]

NoOutcome == [kind |-> "none", returncode |-> 0, text |-> ""]

\* lines 78-84: the four fields of the dict as they are now (the timestamp
\* of the answer is left out)
get_scraper_status(status) ==
    [is_running |-> status.is_running, last_run |-> status.last_run,
     last_error |-> status.last_error, progress |-> status.progress]

\* -------------------------------- database.py and the collection services
\* Records of one scraped batch, and rows a table of the model holds.
MaxBatch == 2
MaxTableRows == 3

\* a row of electricity_prices (database.py lines 16-25): timestamps count
\* days, prices are hundredths; demand, supply, id and created_at play no
\* part in what is modelled and are left out
PriceRecord(timestamp, region, price) ==
    [timestamp |-> timestamp, region |-> region, price |-> price]
PriceRecordPool ==
    { PriceRecord(1, "NSW1", 9543), PriceRecord(1, "NSW1", 0), PriceRecord(1, "VIC1", -500),
      PriceRecord(2, "NSW1", -500), PriceRecord(2, "VIC1", 0) }
\* what the scraper of a service may hand over: any list of records
Batches == UNION { [1..k -> PriceRecordPool] : k \in 0..MaxBatch }

\* a row of dam_levels (database.py lines 27-36)
DamRow(timestamp, dam_name, state, capacity_percentage) ==
    [timestamp |-> timestamp, dam_name |-> dam_name, state |-> state,
     capacity_percentage |-> capacity_percentage]
\* dam_levels as a service finds it
DamTables ==
    { << >>,
      << DamRow(1, "Hume", "VIC", 0), DamRow(2, "Wivenhoe", "QLD", 7550) >>,
      << DamRow(3, "Gordon", "TAS", 0), DamRow(1, "Hume", "VIC", 0),
         DamRow(2, "Hume", "VIC", 4000) >> }

\* data_collection_service.py lines 36-39: the filter of the existence query
SameTimestampAndRegion(row, data) ==
    row.timestamp = data.timestamp /\ row.region = data.region

\* lines 36-41: .first() on the query. SessionLocal is made with
\* autoflush=False (database.py line 12), so the query runs on the rows of
\* the table and does not see the records added to the session before it
Existing(table, data) == \E k \in 1..Len(table) : SameTimestampAndRegion(table[k], data)

\* variant: every record is committed as soon as it was added
collect_and_store_commit_each(table, raises, batch, fail_at) ==
    IF raises THEN table
    ELSE IF fail_at = 0
    THEN table \o SelectSeq(batch, LAMBDA data : ~Existing(table, data))
    ELSE table \o SelectSeq(SubSeq(batch, 1, fail_at - 1),
                            LAMBDA data : ~Existing(table, data))

\* data_collection_service.py lines 26-52 (updated_data_collection_service.py
\* lines 26-62) on the table: the scraper raises or returns batch; fail_at = 0
\* is a run without a database error, fail_at = k an exception at record k
\* (query or insert), fail_at = Len(batch) + 1 an exception in commit. Every
\* exception ends in rollback, which drops the added records.
collect_and_store_electricity_data(table, raises, batch, fail_at) ==
    IF raises \/ fail_at # 0 THEN table
    ELSE IF batch = << >> THEN table
    ELSE table \o SelectSeq(batch, LAMBDA data : ~Existing(table, data))

\* line 152: datetime.now() - timedelta(days=days_to_keep), in days
CutoffDate(now, days_to_keep) == now - days_to_keep

\* variant: a record of the cutoff date itself is deleted too
OlderThanOrAt(timestamp, cutoff_date) == timestamp <= cutoff_date

\* lines 156, 161: timestamp < cutoff_date
OlderThan(timestamp, cutoff_date) == timestamp < cutoff_date

\* lines 151-170 on the two tables; fails: an exception in one of the
\* deletes or in commit, followed by rollback
cleanup_old_data(electricity, dams, now, days_to_keep, fails) ==
    LET cutoff_date == CutoffDate(now, days_to_keep)
    IN  IF fails THEN [electricity |-> electricity, dams |-> dams]
        ELSE [electricity |->
                 SelectSeq(electricity, LAMBDA r : ~OlderThan(r.timestamp, cutoff_date)),
              dams |->
                 SelectSeq(dams, LAMBDA r : ~OlderThan(r.timestamp, cutoff_date))]

\* ------------------------------- RealOnlyScrapers.scrape_all_real_data
\* Records one source scraper returns at most.
MaxScraped == 2

\* real_only_scrapers.py lines 459-465, in the order of the dict
all_dams ==
    << [state |-> "NSW",
        dams |-> <<"Blowering", "Burrinjuck", "Copeton", "Eucumbene", "Warragamba",
                   "Windamere">>],
       [state |-> "VIC", dams |-> <<"Dartmouth", "Eildon", "Hume", "Thomson", "Yarrawonga">>],
       [state |-> "QLD",
        dams |-> <<"Hinze", "Wivenhoe", "Somerset", "Fairbairn", "Burdekin Falls",
                   "Baroon Pocket", "Borumba", "Cooloolabin", "Ewen Maddock",
                   "Lake Macdonald", "Lake Manchester", "Leslie Harrison",
                   "Little Nerang", "Maroon", "Moogerah", "North Pine", "Poona",
                   "Sideling Creek", "Six Mile Creek", "Tingalpa", "Wappa">>],
       [state |-> "SA", dams |-> <<"Happy Valley", "Mount Bold", "Myponga">>],
       [state |-> "TAS", dams |-> <<"Gordon", "Great Lake", "Lake Pedder">>] >>

\* a dict of dam_levels; capacities are hundredths of a percent; timestamp
\* and volume_ml play no part in the fill and are left out
DamRecord(dam_name, state, capacity_percentage) ==
    [dam_name |-> dam_name, state |-> state, capacity_percentage |-> capacity_percentage]

\* what a source scraper does: it raises, or returns a list of records
Raised == [raises |-> TRUE, records |-> << >>]
Returned(records) == [raises |-> FALSE, records |-> records]
SeqwaterOutcomes ==
    { Raised } \cup
    { Returned(r) :
        r \in UNION { [1..k -> { DamRecord("Wivenhoe", "QLD", 7550),
                                 DamRecord("Wivenhoe", "QLD", 0),
                                 DamRecord("North Pine Dam", "QLD", 6010) }]
                        : k \in 0..MaxScraped } }
WaterNSWOutcomes ==
    { Raised, Returned(<< >>), Returned(<<DamRecord("Warragamba", "NSW", 9800)>>),
      Returned(<<DamRecord("Hume", "NSW", 5000)>>) }
SAWaterOutcomes == { Raised, Returned(<< >>), Returned(<<DamRecord("Myponga", "SA", 0)>>) }
HydroTasmaniaOutcomes ==
    { Raised, Returned(<< >>), Returned(<<DamRecord("Gordon", "TAS", 8800)>>) }
\* what scrape_current_prices did for scrape_electricity_data_real_only
ElectricityOutcomes ==
    { [raised |-> FALSE, price_data |-> UnavailableResult],
      [raised |-> TRUE, price_data |-> NoResult] }
ScrapeInputs ==
    [electricity : ElectricityOutcomes, seqwater : SeqwaterOutcomes,
     waternsw : WaterNSWOutcomes, sa_water : SAWaterOutcomes,
     hydro_tas : HydroTasmaniaOutcomes]

\* lines 431-453: one try block; a list is appended, an exception is logged
Extend(dam_levels_so_far, outcome) ==
    IF outcome.raises THEN dam_levels_so_far ELSE dam_levels_so_far \o outcome.records

\* variant: a dam counts as found when its name was scraped for any state
IsFoundByName(scraped_levels, dam_name, state) ==
    \E k \in 1..Len(scraped_levels) : scraped_levels[k].dam_name = dam_name

\* lines 468, 472: (dam_name, state) in found_dams
IsFound(scraped_levels, dam_name, state) ==
    \E k \in 1..Len(scraped_levels) :
        scraped_levels[k].dam_name = dam_name /\ scraped_levels[k].state = state

\* lines 470-479 for the first n states of all_dams: the zero records
RECURSIVE ZeroFill(_, _)
ZeroFill(scraped_levels, n) ==
    IF n = 0 THEN << >>
    ELSE LET state == all_dams[n].state
             missing == SelectSeq(all_dams[n].dams,
                                  LAMBDA dam_name : ~IsFound(scraped_levels, dam_name, state))
         IN  ZeroFill(scraped_levels, n - 1)
                \o [i \in 1..Len(missing) |-> DamRecord(missing[i], state, 0)]

\* lines 411-484
scrape_all_real_data(inputs) ==
    LET scraped_levels ==
            Extend(Extend(Extend(Extend(<< >>, inputs.seqwater), inputs.waternsw),
                          inputs.sa_water), inputs.hydro_tas)
    IN  [electricity_prices |->
            scrape_electricity_data_real_only(inputs.electricity.raised,
                                              inputs.electricity.price_data),
         dam_levels |-> scraped_levels \o ZeroFill(scraped_levels, Len(all_dams))]

\* scrape_all_real_data was not called yet
NoInputs ==
    [electricity |-> [raised |-> FALSE, price_data |-> NoResult], seqwater |-> Raised,
     waternsw |-> Raised, sa_water |-> Raised, hydro_tas |-> Raised]
NoData == [electricity_prices |-> << >>, dam_levels |-> << >>]

\* ------------------------------- api/routes/electricity.py, GET /prices
\* electricity_prices as the route may find it
PriceTables == UNION { [1..k -> PriceRecordPool] : k \in 0..MaxTableRows }

\* the query parameters of lines 18-23; a date that is not given (None) is
\* held as 0, a region that is not given as "None"; page and size pass the
\* ge=1 validation
PriceRequests ==
    [start_date : {0, 2}, end_date : {0, 1}, region : {"None", "NSW1"},
     include_zero : BOOLEAN, page : {1, 2}, size : {1, 100}]

\* lines 31-40: the filters of the query
Selected(row, req) ==
    /\ req.start_date # 0 => row.timestamp >= req.start_date
    /\ req.end_date # 0 => row.timestamp <= req.end_date
    /\ req.region # "None" => row.region = req.region
    /\ ~req.include_zero => row.price > 0

\* line 47, order_by(timestamp.desc()): the orders the database may return
\* rows in; rows of equal timestamp come in any order
DescendingOrders(rows) ==
    LET n == Len(rows)
        orders == { f \in [1..n -> 1..n] :
                      /\ \A i, j \in 1..n : i # j => f[i] # f[j]
                      /\ \A i, j \in 1..n :
                            i < j => rows[f[i]].timestamp >= rows[f[j]].timestamp }
    IN  { [i \in 1..n |-> rows[f[i]]] : f \in orders }

\* lines 46-47: offset and limit on the ordered rows
Page(ordered, page, size) ==
    LET offset == (page - 1) * size
        last == IF offset + size < Len(ordered) THEN offset + size ELSE Len(ordered)
    IN  SubSeq(ordered, offset + 1, last)

\* lines 27-57: the answers the route may give on table for request req; an
\* exception of the query becomes the 500 answer
get_electricity_prices(table, req) ==
    LET rows == SelectSeq(table, LAMBDA row : Selected(row, req))
    IN  { [status_code |-> 200, prices |-> Page(ordered, req.page, req.size),
           total |-> Len(rows), page |-> req.page, size |-> req.size]
            : ordered \in DescendingOrders(rows) }
        \cup { [status_code |-> 500, prices |-> << >>, total |-> 0,
                page |-> req.page, size |-> req.size] }

NoPriceRequest ==
    [start_date |-> 0, end_date |-> 0, region |-> "None", include_zero |-> FALSE,
     page |-> 1, size |-> 100]
NoPriceResponse == [status_code |-> 0, prices |-> << >>, total |-> 0, page |-> 0, size |-> 0]

\* no call of a service is in progress
NoStoreCall ==
    [kind |-> "none", raises |-> FALSE, batch |-> << >>, fail_at |-> 0,
     now |-> 0, days_to_keep |-> 0,
     electricity_before |-> << >>, dam_before |-> << >>]

VARIABLES
    served,            \* per caller: the server's answer to each file URL
    pc,                \* per caller: idle, loop, scan, raised, done
    file_urls,         \* scrape_current_prices: the list of line 124
    fileIdx,           \* index of the next url of the for loop of line 126
    content,           \* the content of line 127
    rowIdx,            \* rows of the for loop of line 88 already scanned
    in_price_section,  \* the flag of line 86
    price_data,        \* the dict of line 80
    result,            \* what scrape_current_prices returned
    last_extract,      \* what the caller's previous extract_price_data returned
    electricity_data,  \* what scrape_electricity_data_real_only returned
    scraper_status,    \* routes/scraper.py: the module-level dict of line 11
    task_pc,           \* per background task: none, queued, started, ran, finished
    task_outcome,      \* per background task: what its subprocess.run did
    start_response,    \* the answer to the last POST /start
    status_response,   \* the answer to the last GET /status
    electricity_prices, \* the rows of table electricity_prices, in insert order
    dam_levels,        \* the rows of table dam_levels, in insert order
    store_pc,          \* idle, collected, cleaned: where the service is
    store_call,        \* the inputs of the service call in progress
    scraped,           \* what the source scrapers do for scrape_all_real_data
    all_data,          \* what scrape_all_real_data returned
    prices_request,    \* the query parameters of the GET /prices request
    prices_response    \* the answer to it

scraperVars == <<served, pc, file_urls, fileIdx, content, rowIdx, in_price_section,
                 price_data, result, last_extract, electricity_data>>
routeVars == <<scraper_status, task_pc, task_outcome, start_response, status_response>>
realVars == <<scraped, all_data, prices_request, prices_response>>
storeVars == <<electricity_prices, dam_levels, store_pc, store_call, realVars>>
vars == <<scraperVars, routeVars, storeVars>>

Callers == DOMAIN pc

\* variant: the flag is one module-level variable written for every caller
SetFlagShared(f, c, v) == [x \in DOMAIN f |-> v]

\* assignment to the local flag of caller c
SetFlag(f, c, v) == [f EXCEPT ![c] = v]

InitCallers(callers, texts, archives) ==
    /\ served \in [callers -> { <<r>> : r \in { OkResponse(t) : t \in texts }
                                            \cup FailedResponses \cup archives }]
    /\ pc = [c \in callers |-> "idle"]
    /\ file_urls = [c \in callers |-> << >>]
    /\ fileIdx = [c \in callers |-> 1]
    /\ content = [c \in callers |-> NoContent]
    /\ rowIdx = [c \in callers |-> 0]
    /\ in_price_section = [c \in callers |-> FALSE]
    /\ price_data = [c \in callers |-> EmptyDict]
    /\ result = [c \in callers |-> NoResult]
    /\ last_extract = [c \in callers |-> NoCall]
    /\ electricity_data = [c \in callers |-> << >>]

\* routes/scraper.py lines 11-16: the module is loaded, no request was made
InitRoutes ==
    /\ scraper_status = InitialStatus
    /\ task_pc = [t \in Tasks |-> "none"]
    /\ task_outcome = [t \in Tasks |-> NoOutcome]
    /\ start_response = "none"
    /\ status_response = InitialStatus

\* the services are constructed: the tables as they are found, no call made
InitStore(price_tables, dam_tables) ==
    /\ electricity_prices \in price_tables
    /\ dam_levels \in dam_tables
    /\ store_pc = "idle"
    /\ store_call = NoStoreCall

\* RealOnlyScrapers is constructed: what its sources will do, nothing scraped
InitReal(inputs, requests) ==
    /\ scraped \in inputs
    /\ all_data = NoData
    /\ prices_request \in requests
    /\ prices_response = NoPriceResponse

Init ==
    /\ InitStore({ << >> }, { << >> }) /\ InitReal({NoInputs}, {NoPriceRequest})
    /\ InitCallers({1}, Texts(RowPool, MaxRows) \cup FiveRegionTexts \cup OddRegionTexts
                           \cup HeaderTexts \cup ReentryTexts,
                   ArchiveResponses)
    /\ InitRoutes

InitConc ==
    /\ InitCallers({1, 2}, Texts(ConcRowPool, MaxConcRows), {})
    /\ InitRoutes
    /\ InitStore({ << >> }, { << >> }) /\ InitReal({NoInputs}, {NoPriceRequest})

\* lines 118-124: a caller enters scrape_current_prices
Call(c) ==
    /\ pc[c] = "idle"
    /\ file_urls' = [file_urls EXCEPT ![c] = get_latest_dispatch_files(DEFAULT_LIMIT)]
    /\ fileIdx' = [fileIdx EXCEPT ![c] = 1]
    /\ pc' = [pc EXCEPT ![c] = "loop"]
    /\ UNCHANGED <<served, content, rowIdx, in_price_section, price_data, result, last_extract,
                   electricity_data, routeVars, storeVars>>

\* lines 126-129 and 77-86, 142: the next file is fetched; a content enters
\* extract_price_data, no content sleeps and goes on to the next url
Download(c) ==
    /\ pc[c] = "loop"
    /\ fileIdx[c] <= Len(file_urls[c])
    /\ LET got == download_and_extract_file(served[c][fileIdx[c]])
       IN  /\ content' = [content EXCEPT ![c] = got]
           /\ IF Truthy(got) /\ got.csv_error
              THEN /\ pc' = [pc EXCEPT ![c] = "raised"]
                   /\ UNCHANGED <<fileIdx, rowIdx, in_price_section, price_data>>
              ELSE IF Truthy(got)
              THEN /\ price_data' = [price_data EXCEPT ![c] = StartState(in_price_section[c]).price_data]
                   /\ in_price_section' = SetFlag(in_price_section, c, StartState(in_price_section[c]).in_price_section)
                   /\ rowIdx' = [rowIdx EXCEPT ![c] = 0]
                   /\ pc' = [pc EXCEPT ![c] = "scan"]
                   /\ UNCHANGED fileIdx
              ELSE /\ fileIdx' = [fileIdx EXCEPT ![c] = fileIdx[c] + 1]
                   /\ UNCHANGED <<pc, rowIdx, in_price_section, price_data>>
    /\ UNCHANGED <<served, file_urls, result, last_extract, electricity_data, routeVars, storeVars>>

\* lines 88-114: one row of the scan; an exception leaves both functions
ScanRow(c) ==
    /\ pc[c] = "scan"
    /\ rowIdx[c] < Len(content[c].rows)
    /\ LET st == StepRow([in_price_section |-> in_price_section[c],
                          price_data |-> price_data[c], raised |-> FALSE],
                         content[c].rows[rowIdx[c] + 1])
       IN  /\ price_data' = [price_data EXCEPT ![c] = st.price_data]
           /\ in_price_section' = SetFlag(in_price_section, c, st.in_price_section)
           /\ IF st.raised
              THEN pc' = [pc EXCEPT ![c] = "raised"] /\ UNCHANGED rowIdx
              ELSE rowIdx' = [rowIdx EXCEPT ![c] = rowIdx[c] + 1] /\ UNCHANGED pc
    /\ UNCHANGED <<served, file_urls, fileIdx, content, result, last_extract,
                   electricity_data, routeVars, storeVars>>

\* lines 116, 129-142: the scan is over; a non-empty dict is returned as
\* REAL, an empty one sleeps and goes on to the next url
EndExtract(c) ==
    /\ pc[c] = "scan"
    /\ rowIdx[c] = Len(content[c].rows)
    /\ IF price_data[c] # EmptyDict
       THEN /\ result' = [result EXCEPT ![c] = RealResult(price_data[c])]
            /\ pc' = [pc EXCEPT ![c] = "done"]
            /\ UNCHANGED fileIdx
       ELSE /\ fileIdx' = [fileIdx EXCEPT ![c] = fileIdx[c] + 1]
            /\ pc' = [pc EXCEPT ![c] = "loop"]
            /\ UNCHANGED result
    /\ UNCHANGED <<served, file_urls, content, rowIdx, in_price_section, price_data, last_extract,
                   electricity_data, routeVars, storeVars>>

\* lines 144-154: every url was tried
ReturnUnavailable(c) ==
    /\ pc[c] = "loop"
    /\ fileIdx[c] > Len(file_urls[c])
    /\ result' = [result EXCEPT ![c] = UnavailableResult]
    /\ pc' = [pc EXCEPT ![c] = "done"]
    /\ UNCHANGED <<served, file_urls, fileIdx, content, rowIdx, in_price_section, price_data,
                   last_extract, electricity_data, routeVars, storeVars>>

\* real_only_scrapers.py lines 39-96: scrape_current_prices was called from
\* scrape_electricity_data_real_only, which turns its dict, or its exception,
\* into the five records
ConvertRecords(c) ==
    /\ pc[c] \in {"done", "raised"}
    /\ electricity_data' = [electricity_data EXCEPT ![c] =
          scrape_electricity_data_real_only(pc[c] = "raised", result[c])]
    /\ pc' = [pc EXCEPT ![c] = "returned"]
    /\ UNCHANGED <<served, file_urls, fileIdx, content, rowIdx, in_price_section, price_data,
                   result, last_extract, routeVars, storeVars>>

\* the caller has its answer (or the exception) and is free to call again;
\* it remembers the map the extraction of this call returned
Finish(c) ==
    /\ pc[c] \in {"done", "raised", "returned"}
    /\ last_extract' = [last_extract EXCEPT ![c] =
          IF result[c] # NoResult /\ Truthy(content[c])
          THEN [called |-> TRUE, map |-> price_data[c]]
          ELSE last_extract[c]]
    /\ pc' = [pc EXCEPT ![c] = "idle"]
    /\ result' = [result EXCEPT ![c] = NoResult]
    /\ content' = [content EXCEPT ![c] = NoContent]
    /\ rowIdx' = [rowIdx EXCEPT ![c] = 0]
    /\ price_data' = [price_data EXCEPT ![c] = EmptyDict]
    /\ electricity_data' = [electricity_data EXCEPT ![c] = << >>]
    /\ UNCHANGED <<served, file_urls, fileIdx, in_price_section, routeVars, storeVars>>

Next ==
    \/ \E c \in Callers : Call(c)
    \/ \E c \in Callers : Download(c)
    \/ \E c \in Callers : ScanRow(c)
    \/ \E c \in Callers : EndExtract(c)
    \/ \E c \in Callers : ReturnUnavailable(c)
    \/ \E c \in Callers : ConvertRecords(c)
    \/ \E c \in Callers : Finish(c)

Spec == Init /\ [][Next]_vars

SpecConc == InitConc /\ [][Next]_vars

\* ------------------------------------------------ routes/scraper.py, actions
FreeTasks == { t \in Tasks : task_pc[t] = "none" }

\* lines 55-73: POST /start; the check of the flag and add_task run without
\* a suspension point; the task itself runs after the response was sent
StartRequest ==
    /\ IF scraper_status.is_running
       THEN /\ start_response' = "400 already running"
            /\ UNCHANGED task_pc
       ELSE /\ FreeTasks # {}
            /\ LET t == CHOOSE x \in FreeTasks : \A y \in FreeTasks : x <= y
               IN  task_pc' = [task_pc EXCEPT ![t] = "queued"]
            /\ start_response' = "running"
    /\ UNCHANGED <<scraper_status, task_outcome, status_response, scraperVars, storeVars>>

\* lines 22-25: a queued run_data_collection starts in its worker thread
TaskBegin(t) ==
    /\ task_pc[t] = "queued"
    /\ scraper_status' = BeginStatus(scraper_status)
    /\ task_pc' = [task_pc EXCEPT ![t] = "started"]
    /\ UNCHANGED <<task_outcome, start_response, status_response, scraperVars, storeVars>>

\* lines 27-51: subprocess.run ends one way or another and the status is
\* written
TaskRun(t) ==
    /\ task_pc[t] = "started"
    /\ \E out \in SubprocessOutcomes :
          /\ scraper_status' = RunStatus(scraper_status, out, t)
          /\ task_outcome' = [task_outcome EXCEPT ![t] = out]
    /\ task_pc' = [task_pc EXCEPT ![t] = "ran"]
    /\ UNCHANGED <<start_response, status_response, scraperVars, storeVars>>

\* lines 52-53
TaskFinally(t) ==
    /\ task_pc[t] = "ran"
    /\ scraper_status' = FinallyStatus(scraper_status, task_outcome[t])
    /\ task_pc' = [task_pc EXCEPT ![t] = "finished"]
    /\ UNCHANGED <<task_outcome, start_response, status_response, scraperVars, storeVars>>

\* lines 75-84: GET /status
StatusRequest ==
    /\ status_response' = get_scraper_status(scraper_status)
    /\ UNCHANGED <<scraper_status, task_pc, task_outcome, start_response, scraperVars, storeVars>>

NextRoutes ==
    \/ StartRequest
    \/ \E t \in Tasks : TaskBegin(t)
    \/ \E t \in Tasks : TaskRun(t)
    \/ \E t \in Tasks : TaskFinally(t)
    \/ StatusRequest

InitRoutesOnly == InitCallers({}, {}, {}) /\ InitRoutes /\ InitStore({ << >> }, { << >> }) /\ InitReal({NoInputs}, {NoPriceRequest})

SpecRoutes == InitRoutesOnly /\ [][NextRoutes]_vars

\* ------------------------------------------- collection services, actions
\* data_collection_service.py lines 22-52: one call of
\* collect_and_store_electricity_data
CollectElectricity ==
    /\ store_pc = "idle"
    /\ \E raises \in BOOLEAN, batch \in Batches :
          /\ Len(electricity_prices) + Len(batch) <= MaxTableRows
          /\ \E fail_at \in 0..(IF raises \/ batch = << >> THEN 0 ELSE Len(batch) + 1) :
                /\ electricity_prices' =
                      collect_and_store_electricity_data(electricity_prices, raises,
                                                         batch, fail_at)
                /\ store_call' = [NoStoreCall EXCEPT !.kind = "collect", !.raises = raises,
                                     !.batch = batch, !.fail_at = fail_at,
                                     !.electricity_before = electricity_prices,
                                     !.dam_before = dam_levels]
    /\ store_pc' = "collected"
    /\ UNCHANGED <<dam_levels, realVars, scraperVars, routeVars>>

\* lines 147-170: one call of cleanup_old_data
CleanupOldData ==
    /\ store_pc = "idle"
    /\ \E now \in {3}, days_to_keep \in 0..3, fails \in BOOLEAN :
          LET after == cleanup_old_data(electricity_prices, dam_levels, now,
                                        days_to_keep, fails)
          IN  /\ electricity_prices' = after.electricity
              /\ dam_levels' = after.dams
              /\ store_call' = [NoStoreCall EXCEPT !.kind = "cleanup", !.raises = fails,
                                   !.now = now, !.days_to_keep = days_to_keep,
                                   !.electricity_before = electricity_prices,
                                   !.dam_before = dam_levels]
    /\ store_pc' = "cleaned"
    /\ UNCHANGED <<realVars, scraperVars, routeVars>>

\* the service method has returned
StoreReturn ==
    /\ store_pc \in {"collected", "cleaned"}
    /\ store_pc' = "idle"
    /\ store_call' = NoStoreCall
    /\ UNCHANGED <<electricity_prices, dam_levels, realVars, scraperVars, routeVars>>

NextStore ==
    \/ CollectElectricity
    \/ CleanupOldData
    \/ StoreReturn

InitStoreOnly ==
    InitCallers({}, {}, {}) /\ InitRoutes /\ InitStore({ << >> }, DamTables) /\ InitReal({NoInputs}, {NoPriceRequest})

SpecStore == InitStoreOnly /\ [][NextStore]_vars

\* real_only_scrapers.py lines 411-484: one call of scrape_all_real_data
ScrapeAllRealData ==
    /\ all_data = NoData
    /\ all_data' = scrape_all_real_data(scraped)
    /\ UNCHANGED <<scraped, prices_request, prices_response, electricity_prices,
                   dam_levels, store_pc, store_call, scraperVars, routeVars>>

NextReal == ScrapeAllRealData

InitRealOnly ==
    InitCallers({}, {}, {}) /\ InitRoutes /\ InitStore({ << >> }, { << >> }) /\ InitReal(ScrapeInputs, {NoPriceRequest})

SpecReal == InitRealOnly /\ [][NextReal]_vars

\* electricity.py lines 16-57: the GET /prices request is answered
GetPrices ==
    /\ prices_response = NoPriceResponse
    /\ prices_response' \in get_electricity_prices(electricity_prices, prices_request)
    /\ UNCHANGED <<prices_request, scraped, all_data, electricity_prices, dam_levels,
                   store_pc, store_call, scraperVars, routeVars>>

NextPrices == GetPrices

InitPricesOnly ==
    /\ InitCallers({}, {}, {})
    /\ InitRoutes
    /\ InitStore(PriceTables, { << >> })
    /\ InitReal({NoInputs}, PriceRequests)

SpecPrices == InitPricesOnly /\ [][NextPrices]_vars

\* a worker thread that can take its next step takes it
SpecRoutesFair ==
    /\ SpecRoutes
    /\ \A t \in Tasks : WF_vars(TaskBegin(t)) /\ WF_vars(TaskRun(t)) /\ WF_vars(TaskFinally(t))

\* ------------------------------------------------------------ the claims
\* The region codes and row shapes as the claims name them.
RegionCodes == {"NSW1", "VIC1", "QLD1", "SA1", "TAS1"}
HasTag(row, tag) == row # << >> /\ Field(row, 0) = tag
MatchesTarget(row) ==
    HasTag(row, "I") /\ Len(row) >= 3 /\ Field(row, 1) = "DISPATCH" /\ Field(row, 2) = "PRICE"
OtherHeader(row) == HasTag(row, "I") /\ ~MatchesTarget(row)
ShapedDataRow(row) == HasTag(row, "D") /\ Len(row) >= 10
NumericText(s) == PyFloat(s).ok
ValidDataRow(row) ==
    /\ ShapedDataRow(row)
    /\ Field(row, REGION_OFFSET) \in RegionCodes
    /\ NumericText(Field(row, PRICE_OFFSET))
Rows(c) == content[c].rows
CurrentRow(c) == Rows(c)[rowIdx[c] + 1]
\* caller c scans its current row to the end in this step
RowScanned(c) ==
    /\ pc[c] = "scan"
    /\ rowIdx[c] < Len(Rows(c))
    /\ rowIdx'[c] = rowIdx[c] + 1
\* caller c scans its current row in this step, or raises on it
ScanStep(c) ==
    /\ pc[c] = "scan"
    /\ rowIdx[c] < Len(Rows(c))
    /\ (rowIdx'[c] # rowIdx[c] \/ pc'[c] # pc[c])
\* extract_price_data has returned price_data[c] for content[c]
Extracted(c) == pc[c] \in {"done", "loop"} /\ Truthy(content[c])
\* row k comes after an 'I' row of another table with no target header between
BehindOtherHeader(rows, k) ==
    \E j \in 1..(k - 1) :
        OtherHeader(rows[j]) /\ \A i \in (j + 1)..(k - 1) : ~MatchesTarget(rows[i])
\* the data rows of rows that are valid for region r and met with the
\* section flag set
LiveRowsOf(rows, r) ==
    { k \in 1..Len(rows) :
        /\ ValidDataRow(rows[k])
        /\ Field(rows[k], REGION_OFFSET) = r
        /\ ScanPrefix(rows, k - 1).in_price_section }

MaxOf(S) == CHOOSE m \in S : \A x \in S : x <= m

\* C1: extract_price_data never raises: no call ends with an exception,
\* whatever rows the content holds.
C1_NeverRaises == \A c \in Callers : pc[c] # "raised"

\* C2: once the PRICE section is active, any 'I' row that is not exactly
\* (DISPATCH, PRICE) ends it, and a 'D' row behind such a row (before the
\* next target header) leaves the price map as it was.
C2_TableBoundary ==
    [][\A c \in Callers : RowScanned(c) =>
          /\ (in_price_section[c] /\ OtherHeader(CurrentRow(c))) => ~in_price_section'[c]
          /\ (HasTag(CurrentRow(c), "D") /\ BehindOtherHeader(Rows(c), rowIdx[c] + 1))
                => price_data'[c] = price_data[c]]_vars

\* C3: when the content yields no region price, the result has quality
\* UNAVAILABLE and an empty region-to-price map.
C3_UnavailableIsEmpty ==
    \A c \in Callers :
        (pc[c] = "done" /\ Truthy(content[c]) /\ price_data[c] = EmptyDict)
            => /\ result[c].data_quality = "UNAVAILABLE"
               /\ DOMAIN result[c].prices = {}

\* a report as C4 describes it: the target header, then only valid data
\* rows, which cover all five regions
WellFormedFive(rows) ==
    /\ Len(rows) >= 2
    /\ MatchesTarget(rows[1])
    /\ \A k \in 2..Len(rows) : ValidDataRow(rows[k])
    /\ \A r \in RegionCodes : \E k \in 2..Len(rows) : Field(rows[k], REGION_OFFSET) = r
LastRowOf(rows, r) ==
    MaxOf({ k \in 1..Len(rows) : ValidDataRow(rows[k]) /\ Field(rows[k], REGION_OFFSET) = r })

\* C4: a target header followed by valid data rows covering all five
\* regions is scanned without an exception and returned with quality REAL,
\* each of the five regions mapped to the price of its (last) row.
C4_FiveRegionsReal ==
    \A c \in Callers :
        (Truthy(content[c]) /\ WellFormedFive(Rows(c))) =>
            /\ pc[c] # "raised"
            /\ pc[c] = "done" =>
                /\ result[c].data_quality = "REAL"
                /\ DOMAIN result[c].prices = RegionCodes
                /\ \A r \in RegionCodes :
                      result[c].prices[r] =
                          PyFloat(Field(Rows(c)[LastRowOf(Rows(c), r)], PRICE_OFFSET)).value

C4_Witness ==
    \E c \in Callers :
        /\ pc[c] = "done"
        /\ Truthy(content[c])
        /\ WellFormedFive(Rows(c))
        /\ result[c].data_quality = "REAL"

\* C5: in the active section a data row whose price is empty or not numeric
\* is skipped (the map and the flag stay, the scan goes on), and a valid
\* data row is extracted wherever it stands in the section.
C5_BadPriceSkipped ==
    [][\A c \in Callers : ScanStep(c) =>
          LET row == CurrentRow(c)
          IN  /\ (in_price_section[c] /\ ShapedDataRow(row)
                    /\ ~NumericText(Field(row, PRICE_OFFSET)))
                 => /\ price_data'[c] = price_data[c]
                    /\ in_price_section'[c]
                    /\ pc'[c] = "scan"
                    /\ rowIdx'[c] = rowIdx[c] + 1
              /\ (in_price_section[c] /\ ValidDataRow(row))
                 => /\ price_data'[c] =
                          DictSet(price_data[c], Field(row, REGION_OFFSET),
                                  PyFloat(Field(row, PRICE_OFFSET)).value)
                    /\ in_price_section'[c]
                    /\ pc'[c] = "scan"]_vars

\* a bad-price row was scanned in the active section and a valid row behind
\* it has been extracted
C5_Witness ==
    \E c \in Callers :
        /\ pc[c] = "scan"
        /\ \E j \in 1..rowIdx[c] : \E k \in (j + 1)..rowIdx[c] :
              /\ ShapedDataRow(Rows(c)[j])
              /\ ~NumericText(Field(Rows(c)[j], PRICE_OFFSET))
              /\ ScanPrefix(Rows(c), j - 1).in_price_section
              /\ \A i \in j..k : ~HasTag(Rows(c)[i], "I")
              /\ ValidDataRow(Rows(c)[k])
              /\ Field(Rows(c)[k], REGION_OFFSET) \in DOMAIN price_data[c]

\* C6: a returned result is REAL exactly when at least one region price was
\* recorded, and then its price entries are exactly the recorded ones: no
\* entry is added for a region that was not found.
C6_RealIffRecorded ==
    \A c \in Callers :
        pc[c] = "done" =>
            /\ result[c].data_quality \in {"REAL", "UNAVAILABLE"}
            /\ result[c].data_quality = "REAL" <=> price_data[c] # EmptyDict
            /\ result[c].data_quality = "REAL" =>
                  /\ result[c].prices = price_data[c]
                  /\ DOMAIN result[c].prices =
                        { r \in RegionCodes : LiveRowsOf(Rows(c), r) # {} }

\* a REAL result that holds some but not all of the five regions
C6_Witness ==
    \E c \in Callers :
        /\ pc[c] = "done"
        /\ result[c].data_quality = "REAL"
        /\ DOMAIN result[c].prices # {}
        /\ DOMAIN result[c].prices # RegionCodes
        /\ DOMAIN result[c].prices \subseteq RegionCodes

\* C7: two extractions of the same content return identical maps, whether
\* by two callers or by one caller calling again.
C7_Idempotent ==
    /\ \A c1, c2 \in Callers :
          (Extracted(c1) /\ Extracted(c2) /\ content[c1] = content[c2])
              => price_data[c1] = price_data[c2]
    /\ \A c \in Callers :
          (Extracted(c) /\ last_extract[c].called) => price_data[c] = last_extract[c].map

\* a caller has extracted a non-empty map a second time while the other
\* caller has extracted the same content
C7_Witness ==
    \E c1, c2 \in Callers :
        /\ c1 # c2
        /\ Extracted(c1) /\ Extracted(c2)
        /\ content[c1] = content[c2]
        /\ last_extract[c1].called
        /\ price_data[c1] # EmptyDict

C9_KeysAreTrackedRegions ==
    \A c \in Callers : \A r \in DOMAIN price_data[c] :
        /\ r \in RegionCodes
        /\ \E k \in 1..rowIdx[c] :
              ShapedDataRow(Rows(c)[k]) /\ Field(Rows(c)[k], REGION_OFFSET) = r

\* a shaped data row with another string at the region offset and a numeric
\* price was scanned in the active section
C9_Witness ==
    \E c \in Callers :
        /\ pc[c] = "scan"
        /\ \E k \in 1..rowIdx[c] :
              /\ ShapedDataRow(Rows(c)[k])
              /\ Field(Rows(c)[k], REGION_OFFSET) \notin RegionCodes
              /\ NumericText(Field(Rows(c)[k], PRICE_OFFSET))
              /\ ScanPrefix(Rows(c), k - 1).in_price_section
        /\ price_data[c] # EmptyDict

\* C10: under any row-by-row interleaving each call holds, at every point,
\* the flag and the map it holds when its rows are scanned alone, and
\* returns the map it returns alone.
C10_InterleavingSafe ==
    \A c \in Callers :
        /\ pc[c] = "scan" =>
              /\ in_price_section[c] = ScanPrefix(Rows(c), rowIdx[c]).in_price_section
              /\ price_data[c] = ScanPrefix(Rows(c), rowIdx[c]).price_data
        /\ Extracted(c) => price_data[c] = extract_price_data(Rows(c)).price_data

\* both calls are in the middle of their scans, one inside the section and
\* one outside, on different contents
C10_Witness ==
    \E c1, c2 \in Callers :
        /\ pc[c1] = "scan" /\ pc[c2] = "scan"
        /\ rowIdx[c1] > 0 /\ rowIdx[c2] > 0
        /\ rowIdx[c1] < Len(Rows(c1)) /\ rowIdx[c2] < Len(Rows(c2))
        /\ content[c1] # content[c2]
        /\ in_price_section[c1] /\ ~in_price_section[c2]

\* C11: scrape_electricity_data_real_only always returns exactly five records,
\* one per region in the order NSW1, VIC1, QLD1, SA1, TAS1, whatever the
\* scraper returned or raised; a region whose price was not extracted, and
\* every region when the quality is not REAL or an exception occurred, has
\* price 0.0.
ExpectedPrice(c, region) ==
    IF result[c].data_quality = "REAL" /\ region \in DOMAIN price_data[c]
    THEN price_data[c][region]
    ELSE 0
C11_FiveRecordsAlways ==
    \A c \in Callers :
        pc[c] = "returned" =>
            /\ Len(electricity_data[c]) = 5
            /\ [i \in 1..5 |-> electricity_data[c][i].region]
                  = <<"NSW1", "VIC1", "QLD1", "SA1", "TAS1">>
            /\ \A i \in 1..5 :
                  electricity_data[c][i].price
                     = ExpectedPrice(c, electricity_data[c][i].region)

\* a REAL answer with a price for one region and none for another was
\* converted
C11_Witness ==
    \E c \in Callers :
        /\ pc[c] = "returned"
        /\ result[c].data_quality = "REAL"
        /\ \E i, j \in 1..5 :
              /\ electricity_data[c][i].price # 0
              /\ electricity_data[c][j].region \notin DOMAIN price_data[c]
              /\ electricity_data[c][j].price = 0

\* the scraper raised after it had recorded a price, and five zero records
\* were returned
C11_WitnessRaised ==
    \E c \in Callers :
        /\ pc[c] = "returned"
        /\ result[c] = NoResult
        /\ price_data[c] # EmptyDict
        /\ Len(electricity_data[c]) = 5

\* C12: download_and_extract_file returns the text of exactly one member, the
\* first in archive order whose name ends in .csv case-insensitively, and
\* returns None, never raising, when the HTTP status is not 200, the request
\* or the archive fails, or the archive has no CSV member.
CsvName(ext) == ext \in {"csv", "Csv", "CSV"}
EligibleMembers(resp) == { k \in 1..Len(resp.members) : CsvName(resp.members[k].ext) }
DownloadStep(c) ==
    /\ pc[c] = "loop"
    /\ fileIdx[c] <= Len(file_urls[c])
    /\ (pc'[c] # pc[c] \/ fileIdx'[c] # fileIdx[c])
C12_FirstCsvMember ==
    [][\A c \in Callers :
          DownloadStep(c) =>
             LET resp == served[c][fileIdx[c]]
                 eligible == EligibleMembers(resp)
             IN  IF resp.raises \/ resp.status_code # 200 \/ resp.bad_zip \/ eligible = {}
                 THEN content'[c].is_none /\ pc'[c] = "loop"
                 ELSE /\ ~content'[c].is_none
                      /\ \E k \in eligible :
                            /\ \A j \in eligible : k <= j
                            /\ content'[c].rows = resp.members[k].text]_vars

\* the text of the second member was returned: the first is no CSV file and
\* the second is one, spelled in lower or mixed case
C12_Witness ==
    \E c \in Callers :
        /\ pc[c] = "scan"
        /\ LET members == served[c][fileIdx[c]].members
           IN  /\ Len(members) = 2
               /\ members[1].ext = "txt"
               /\ members[2].ext \in {"csv", "Csv"}
               /\ members[1].text # members[2].text
               /\ Rows(c) = members[2].text

\* C13: in scrape_current_prices a failure on one dispatch file (download
\* error, bad archive, or a failure while splitting or scanning its rows)
\* degrades only that file: the next file url is tried and the call ends with
\* a REAL or an UNAVAILABLE result, not with an exception.
FileFailure(c) ==
    \/ /\ DownloadStep(c)
       /\ LET got == download_and_extract_file(served[c][fileIdx[c]])
          IN  got.is_none \/ got.csv_error
    \/ /\ ScanStep(c)
       /\ StepRow([in_price_section |-> in_price_section[c],
                   price_data |-> price_data[c], raised |-> FALSE],
                  CurrentRow(c)).raised
C13_FileFailureContained ==
    [][\A c \in Callers :
          FileFailure(c) => pc'[c] = "loop" /\ fileIdx'[c] = fileIdx[c] + 1]_vars

\* C14: the section flag starts false and a header row is never read as data:
\* 'D' rows before the first (DISPATCH, PRICE) 'I' header contribute nothing,
\* and the matching header contributes nothing even when it has ten or more
\* fields with a tracked region at offset 6 and a numeric text at offset 9.
NoHeaderYet(c) == \A k \in 1..rowIdx[c] : ~MatchesTarget(Rows(c)[k])
C14_HeaderIsNotData ==
    [][\A c \in Callers :
          /\ (pc'[c] = "scan" /\ rowIdx'[c] = 0) => ~in_price_section'[c]
          /\ (RowScanned(c) /\ HasTag(CurrentRow(c), "D") /\ NoHeaderYet(c))
                => price_data'[c] = EmptyDict /\ ~in_price_section'[c]
          /\ (RowScanned(c) /\ MatchesTarget(CurrentRow(c)))
                => price_data'[c] = price_data[c] /\ in_price_section'[c]]_vars

\* a well-formed data row and then a header of the shape of a data row were
\* scanned, and the map is empty
C14_Witness ==
    \E c \in Callers :
        /\ pc[c] = "scan"
        /\ rowIdx[c] = 2
        /\ ValidDataRow(Rows(c)[1])
        /\ MatchesTarget(Rows(c)[2])
        /\ Len(Rows(c)[2]) >= 10
        /\ Field(Rows(c)[2], 6) \in RegionCodes
        /\ NumericText(Field(Rows(c)[2], 9))
        /\ price_data[c] = EmptyDict
        /\ in_price_section[c]

\* C15: a 'D' row inside the active PRICE section with fewer than 10 fields
\* is ignored: it records nothing, does not end the section, and later valid
\* 'D' rows of the same section are still extracted.
ShortDataAt(rows, k) == HasTag(rows[k], "D") /\ Len(rows[k]) < 10
\* row k stands in a PRICE section: a matching header precedes it with no 'I'
\* row between
InSectionAt(rows, k) ==
    \E j \in 1..(k - 1) :
        MatchesTarget(rows[j]) /\ \A i \in (j + 1)..(k - 1) : ~HasTag(rows[i], "I")
\* a short 'D' row of the section the current row stands in came before it
AfterShortData(c) ==
    \E k \in 1..rowIdx[c] :
        /\ ShortDataAt(Rows(c), k)
        /\ InSectionAt(Rows(c), k)
        /\ \A i \in (k + 1)..rowIdx[c] : ~HasTag(Rows(c)[i], "I")
C15_ShortDataRowIgnored ==
    [][\A c \in Callers :
          RowScanned(c) =>
             /\ (in_price_section[c] /\ ShortDataAt(Rows(c), rowIdx[c] + 1))
                   => price_data'[c] = price_data[c] /\ in_price_section'[c]
             /\ (AfterShortData(c) /\ ValidDataRow(CurrentRow(c)))
                   => /\ Field(CurrentRow(c), 6) \in DOMAIN price_data'[c]
                      /\ price_data'[c][Field(CurrentRow(c), 6)]
                            = PyFloat(Field(CurrentRow(c), 9)).value]_vars

\* header, short 'D' row, valid 'D' row: the price of the third row is in
\* the map
C15_Witness ==
    \E c \in Callers :
        /\ pc[c] = "scan"
        /\ rowIdx[c] = 3
        /\ MatchesTarget(Rows(c)[1])
        /\ ShortDataAt(Rows(c), 2)
        /\ ValidDataRow(Rows(c)[3])
        /\ in_price_section[c]
        /\ DOMAIN price_data[c] = { Field(Rows(c)[3], 6) }

\* C16: a row whose tag is neither 'I' nor 'D' (a 'C' row, an empty row)
\* leaves the section flag and the price map unchanged, in and out of the
\* PRICE section.
StrayRow(row) == ~HasTag(row, "I") /\ ~HasTag(row, "D")
C16_StrayRowNoOp ==
    [][\A c \in Callers :
          (ScanStep(c) /\ StrayRow(CurrentRow(c)))
             => /\ RowScanned(c)
                /\ price_data'[c] = price_data[c]
                /\ in_price_section'[c] = in_price_section[c]]_vars

\* a 'C' row was scanned inside the section after a price was recorded, and
\* the flag and the price are still there
C16_Witness ==
    \E c \in Callers :
        /\ pc[c] = "scan"
        /\ rowIdx[c] = 3
        /\ MatchesTarget(Rows(c)[1])
        /\ ValidDataRow(Rows(c)[2])
        /\ HasTag(Rows(c)[3], "C")
        /\ in_price_section[c]
        /\ price_data[c] # EmptyDict

\* C17: after the section was ended by an 'I' row of another table, a later
\* (DISPATCH, PRICE) 'I' row sets the flag again and the valid 'D' rows after
\* it are extracted, overwriting earlier prices of the same region; the
\* prices of the earlier section for other regions are kept.
Overwritten(map, region, value) ==
    [r \in (DOMAIN map) \cup {region} |-> IF r = region THEN value ELSE map[r]]
\* the current row stands in a second PRICE section
InLaterSection(c) ==
    \E h1, o, h2 \in 1..rowIdx[c] :
        /\ h1 < o /\ o < h2
        /\ MatchesTarget(Rows(c)[h1])
        /\ OtherHeader(Rows(c)[o])
        /\ MatchesTarget(Rows(c)[h2])
        /\ \A i \in (h2 + 1)..rowIdx[c] : ~HasTag(Rows(c)[i], "I")
C17_SectionReentered ==
    [][\A c \in Callers :
          RowScanned(c) =>
             /\ (~in_price_section[c] /\ price_data[c] # EmptyDict
                   /\ MatchesTarget(CurrentRow(c)))
                   => in_price_section'[c] /\ price_data'[c] = price_data[c]
             /\ (InLaterSection(c) /\ ValidDataRow(CurrentRow(c)))
                   => price_data'[c] = Overwritten(price_data[c], Field(CurrentRow(c), 6),
                                                   PyFloat(Field(CurrentRow(c), 9)).value)]_vars

\* two prices were recorded, another table ended the section, the section
\* was entered again and the price of one region was replaced, the other kept
C17_Witness ==
    \E c \in Callers :
        /\ pc[c] = "scan"
        /\ rowIdx[c] = 6
        /\ InLaterSection(c)
        /\ ~ScanPrefix(Rows(c), 4).in_price_section
        /\ ValidDataRow(Rows(c)[2]) /\ ValidDataRow(Rows(c)[3]) /\ ValidDataRow(Rows(c)[6])
        /\ Field(Rows(c)[2], 6) = Field(Rows(c)[6], 6)
        /\ Field(Rows(c)[3], 6) # Field(Rows(c)[6], 6)
        /\ PyFloat(Field(Rows(c)[2], 9)).value # PyFloat(Field(Rows(c)[6], 9)).value
        /\ price_data[c][Field(Rows(c)[6], 6)] = PyFloat(Field(Rows(c)[6], 9)).value
        /\ price_data[c][Field(Rows(c)[3], 6)] = PyFloat(Field(Rows(c)[3], 9)).value

\* C18: scrape_current_prices tries several dispatch files in list order and
\* returns the prices of the first file that yields a non-empty price map;
\* files after that one are never downloaded, a file that yields no content
\* or an empty map is followed by an attempt on the next file, and
\* UNAVAILABLE is returned only after every file of the list was tried.
C18_SeveralFilesInOrder ==
    \A c \in Callers :
        /\ pc[c] \in {"loop", "scan", "done"} => Len(file_urls[c]) >= 2
        /\ (pc[c] = "done" /\ result[c].data_quality = "REAL")
              => fileIdx[c] <= Len(file_urls[c]) /\ price_data[c] # EmptyDict
        /\ (pc[c] = "done" /\ result[c].data_quality = "UNAVAILABLE")
              => fileIdx[c] = Len(file_urls[c]) + 1

\* C19: at most one background data collection is queued or running at any
\* time: a POST /start that comes after an accepted POST /start and before
\* that collection has finished is rejected with HTTP 400, in every
\* interleaving of requests and background tasks.
PendingTasks == { t \in Tasks : task_pc[t] \in {"queued", "started", "ran"} }
C19_AtMostOneCollection == Cardinality(PendingTasks) <= 1

\* C20: every execution of run_data_collection, whether the subprocess exits
\* with 0, exits non-zero, times out or another exception is raised, in the
\* end sets is_running to False, so that a later POST /start is accepted.
C20_FlagReleased ==
    /\ \A t \in Tasks :
          (task_pc[t] = "started")
             ~> (task_pc[t] = "finished" /\ ~scraper_status.is_running)
    /\ [][(~scraper_status.is_running /\ FreeTasks # {} /\ start_response' # start_response)
             => start_response' = "running"]_vars

\* a collection that timed out has finished, the flag is down and the POST
\* /start after it was accepted
C20_Witness ==
    \E t, u \in Tasks :
        /\ task_pc[t] = "finished"
        /\ task_outcome[t].kind = "timeout"
        /\ ~scraper_status.is_running
        /\ PendingTasks = {u}
        /\ task_pc[u] = "queued"
        /\ start_response = "running"

\* C21: last_run changes only when a collection ends with return code 0 and
\* is left unchanged by a failed, timed-out or erroring run; last_error is
\* None at the end of every successful run and not None at the end of every
\* failed run (the stderr, 'Timeout' or the exception text).
Succeeded(out) == out.kind = "exit" /\ out.returncode = 0
C21_StatusBookkeeping ==
    [][/\ (\A t \in Tasks : ~(task_pc[t] = "started" /\ task_pc'[t] = "ran"))
             => scraper_status'.last_run = scraper_status.last_run
       /\ \A t \in Tasks :
          /\ (task_pc[t] = "started" /\ task_pc'[t] = "ran") =>
                IF Succeeded(task_outcome'[t])
                THEN scraper_status'.last_run # scraper_status.last_run
                ELSE scraper_status'.last_run = scraper_status.last_run
          /\ (task_pc[t] = "ran" /\ task_pc'[t] = "finished") =>
                IF Succeeded(task_outcome[t])
                THEN scraper_status'.last_error = "None"
                ELSE /\ scraper_status'.last_error # "None"
                     /\ scraper_status'.last_error = task_outcome[t].text]_vars

\* C22: from the moment POST /start has answered 'running' until that
\* collection finishes, every GET /status reports is_running = true.
C22_StatusAgreesWithStart ==
    PendingTasks # {} => get_scraper_status(scraper_status).is_running

\* C23: after any sequence of collection runs that store electricity data,
\* electricity_prices holds no two collector-inserted records with the same
\* (timestamp, region), also when one collected batch itself contains two
\* records with the same (timestamp, region).
C23_NoDuplicateKeys ==
    \A i, j \in 1..Len(electricity_prices) :
        i < j =>
           ~(/\ electricity_prices[i].timestamp = electricity_prices[j].timestamp
             /\ electricity_prices[i].region = electricity_prices[j].region)

\* C24: when collect_and_store_electricity_data fails at any point (scraping,
\* the existence query, an insert or the commit), none of the records of the
\* batch is in electricity_prices afterwards, and the records of earlier
\* successful runs are unchanged.
CollectStep == store_pc = "idle" /\ store_pc' = "collected"
C24_BatchAtomic ==
    [][CollectStep =>
          /\ SubSeq(electricity_prices', 1, Len(electricity_prices)) = electricity_prices
          /\ (store_call'.raises \/ store_call'.fail_at # 0)
                => electricity_prices' = electricity_prices]_vars

\* the table held rows of an earlier run, a batch with a record that is not
\* in the table yet was collected, the commit failed, and the table is as it
\* was
C24_Witness ==
    /\ store_pc = "collected"
    /\ store_call.kind = "collect"
    /\ store_call.fail_at = Len(store_call.batch) + 1
    /\ store_call.electricity_before # << >>
    /\ electricity_prices = store_call.electricity_before
    /\ \E k \in 1..Len(store_call.batch) :
          \A i \in 1..Len(electricity_prices) :
              electricity_prices[i].timestamp # store_call.batch[k].timestamp

\* C25: cleanup_old_data(days_to_keep) deletes exactly the electricity and dam
\* records whose timestamp is strictly older than now minus days_to_keep days
\* and leaves every other record unchanged; if the deletion fails, the
\* rollback leaves both tables as they were before the call.
NotOlder(table, cutoff) == SelectSeq(table, LAMBDA r : r.timestamp >= cutoff)
CleanupStep == store_pc = "idle" /\ store_pc' = "cleaned"
C25_CleanupExact ==
    [][CleanupStep =>
          LET cutoff == store_call'.now - store_call'.days_to_keep
          IN  IF store_call'.raises
              THEN electricity_prices' = electricity_prices /\ dam_levels' = dam_levels
              ELSE /\ electricity_prices' = NotOlder(electricity_prices, cutoff)
                   /\ dam_levels' = NotOlder(dam_levels, cutoff)]_vars

\* a cleanup went through that found, in each table, a record older than
\* the cutoff date and a record of the cutoff date itself: the first is
\* gone, the second is still there
C25_Witness ==
    /\ store_pc = "cleaned"
    /\ ~store_call.raises
    /\ LET cutoff == store_call.now - store_call.days_to_keep
       IN  /\ \E i \in 1..Len(store_call.electricity_before) :
                 store_call.electricity_before[i].timestamp < cutoff
           /\ \E i \in 1..Len(store_call.dam_before) :
                 store_call.dam_before[i].timestamp < cutoff
           /\ \E i \in 1..Len(electricity_prices) : electricity_prices[i].timestamp = cutoff
           /\ \E i \in 1..Len(dam_levels) : dam_levels[i].timestamp = cutoff
           /\ \A i \in 1..Len(electricity_prices) : electricity_prices[i].timestamp >= cutoff
           /\ \A i \in 1..Len(dam_levels) : dam_levels[i].timestamp >= cutoff

\* C26: after scrape_all_real_data, whatever each source scraper returned or
\* raised, every (dam name, state) pair of the fixed catalogue occurs in
\* dam_levels at least once, a record with capacity_percentage 0.0 is
\* appended for a catalogue pair exactly when no scraper returned a record of
\* that pair, and scraped records are never replaced or removed.
Catalogue ==
    UNION { { <<all_dams[n].dams[i], all_dams[n].state>> : i \in 1..Len(all_dams[n].dams) }
              : n \in 1..Len(all_dams) }
\* the records the sources returned, in the order the sources are asked
ReturnedRecords ==
    scraped.seqwater.records \o scraped.waternsw.records
       \o scraped.sa_water.records \o scraped.hydro_tas.records
PairOf(record) == <<record.dam_name, record.state>>
C26_ZeroFill ==
    all_data # NoData =>
       LET levels == all_data.dam_levels
           n == Len(ReturnedRecords)
           appended == { k \in 1..Len(levels) : k > n }
       IN  /\ Len(levels) >= n
           /\ SubSeq(levels, 1, n) = ReturnedRecords
           /\ \A pair \in Catalogue : \E k \in 1..Len(levels) : PairOf(levels[k]) = pair
           /\ \A k \in appended :
                 /\ levels[k].capacity_percentage = 0
                 /\ PairOf(levels[k]) \in Catalogue
           /\ \A pair \in Catalogue :
                 Cardinality({ k \in appended : PairOf(levels[k]) = pair })
                    = IF \E j \in 1..n : PairOf(ReturnedRecords[j]) = pair THEN 0 ELSE 1

\* one source raised, one returned a dam of the catalogue with a level, one
\* returned the name of a catalogue dam under another state: the first dam
\* has no zero record, the dam of the other state has one
C26_Witness ==
    /\ all_data # NoData
    /\ scraped.hydro_tas.raises
    /\ \E k \in 1..Len(all_data.dam_levels) :
          /\ all_data.dam_levels[k] = DamRecord("Wivenhoe", "QLD", 7550)
          /\ \A j \in 1..Len(all_data.dam_levels) :
                PairOf(all_data.dam_levels[j]) = <<"Wivenhoe", "QLD">>
                   => all_data.dam_levels[j].capacity_percentage # 0
    /\ \E k \in 1..Len(all_data.dam_levels) :
          all_data.dam_levels[k] = DamRecord("Hume", "NSW", 5000)
    /\ \E k \in 1..Len(all_data.dam_levels) :
          all_data.dam_levels[k] = DamRecord("Hume", "VIC", 0)
    /\ \E k \in 1..Len(all_data.dam_levels) :
          all_data.dam_levels[k] = DamRecord("Gordon", "TAS", 0)

\* C27: GET /prices with include_zero false returns, and counts in total,
\* exactly the matching records whose price is not zero (a record with a
\* negative price is kept); with include_zero true every matching record.
Matching(row, req) ==
    /\ req.start_date # 0 => row.timestamp >= req.start_date
    /\ req.end_date # 0 => row.timestamp <= req.end_date
    /\ req.region # "None" => row.region = req.region
Wanted(row, req) == Matching(row, req) /\ (req.include_zero \/ row.price # 0)
WantedRows == SelectSeq(electricity_prices, LAMBDA row : Wanted(row, prices_request))
C27_ZeroExcludedOnly ==
    prices_response.status_code = 200 =>
       /\ prices_response.total = Len(WantedRows)
       /\ \A k \in 1..Len(prices_response.prices) :
             Wanted(prices_response.prices[k], prices_request)
       /\ (prices_request.page = 1 /\ prices_request.size >= Len(WantedRows))
             => { prices_response.prices[k] : k \in 1..Len(prices_response.prices) }
                   = { WantedRows[k] : k \in 1..Len(WantedRows) }

====
